---- MODULE Spec2Model ----
(***************************************************************************)
(* freqprobe: per-core CPU frequency sampling with a bounded running       *)
(* average (src/cpustat.rs), two probing interfaces (src/probe.rs) and the *)
(* Runner's monitor / log loops (src/main.rs).                             *)
(*                                                                         *)
(* Numbers.  Samples and sums are u64 in the source.  Every value of this  *)
(* model is far below 2^64, so the u64 operations are the mathematical     *)
(* ones here; frequencies are small (a few MHz) for the same reason.       *)
(* A decimal MHz text "D.ddd" is represented by the integer of its         *)
(* thousandths, n = D*1000 + ddd.                                          *)
(***************************************************************************)
EXTENDS Integers, Sequences, FiniteSets, TLC

(***************************************************************************)
(* Bounds of the model                                                     *)
(***************************************************************************)
\* window sizes 0..MaxWindow are given to CpuStat::new
MaxWindow == 3
\* add_sample calls in the CpuStat specification
MaxFeed == 4
\* poll ticks of the Runner
MaxTicks == 3
\* longest cpuset string given to validate_cpuset
MaxStrLen == 5
\* longest /proc/cpuinfo (in lines) given to parse_procfs_cpuinfo alone
MaxLines == 4

(***************************************************************************)
(* Program constants                                                       *)
(***************************************************************************)
KILO == 1000
DEFAULT_WINDOW_SIZE == 10000
DEFAULT_SAMPLE_FREQUENCY == 1
WINDOW_SIZE == 10000
\* the divisor of avg_mhz
MEGA == 1000000

\* Option<T>::None for the numeric options and for `current`
None == -1

(***************************************************************************)
(* Helpers on sequences                                                    *)
(***************************************************************************)
RECURSIVE SumSeq(_)
SumSeq(s) == IF s = <<>> THEN 0 ELSE Head(s) + SumSeq(Tail(s))

Min(a, b) == IF a < b THEN a ELSE b

\* the last n elements of s, in order
LastN(s, n) == SubSeq(s, Len(s) - n + 1, Len(s))

(***************************************************************************)
(* src/cpustat.rs                                                          *)
(***************************************************************************)
CpuStat_new(id, window_size) ==
    [id |-> id,
     window_size |-> window_size,
     frequency_samples |-> <<>>,
     sum |-> 0]

\* mutant: the evicted value is not subtracted from sum
add_sample_keeps_evicted(st, sample) ==
    LET full == Len(st.frequency_samples) = st.window_size
        evict == full /\ st.frequency_samples # <<>>
        q == IF evict THEN Tail(st.frequency_samples) ELSE st.frequency_samples
    IN  [st EXCEPT !.sum = st.sum + sample,
                   !.frequency_samples = Append(q, sample)]

\* mutant: the newest sample is evicted instead of the oldest
add_sample_evicts_newest(st, sample) ==
    LET full == Len(st.frequency_samples) = st.window_size
        evict == full /\ st.frequency_samples # <<>>
        n == Len(st.frequency_samples)
        q == IF evict THEN SubSeq(st.frequency_samples, 1, n - 1)
                      ELSE st.frequency_samples
        s == IF evict THEN st.sum - st.frequency_samples[n] ELSE st.sum
    IN  [st EXCEPT !.sum = s + sample,
                   !.frequency_samples = Append(q, sample)]

add_sample(st, sample) ==
    LET full == Len(st.frequency_samples) = st.window_size
        \* pop_front() is None on an empty queue (window_size = 0)
        evict == full /\ st.frequency_samples # <<>>
        q == IF evict THEN Tail(st.frequency_samples) ELSE st.frequency_samples
        s == IF evict THEN st.sum - Head(st.frequency_samples) ELSE st.sum
    IN  [st EXCEPT !.sum = s + sample,
                   !.frequency_samples = Append(q, sample)]

\* sum as f64 / len as f64: an f64 division never fails; x/0.0 is NaN for
\* x = 0 and +inf otherwise.  A finite quotient is kept as num/den.
mean(st) ==
    LET n == Len(st.frequency_samples)
    IN  IF n = 0
        THEN [kind |-> IF st.sum = 0 THEN "NaN" ELSE "inf", num |-> st.sum, den |-> 0]
        ELSE [kind |-> "value", num |-> st.sum, den |-> n]

avg_mhz(st) ==
    LET m == mean(st)
    IN  IF m.kind = "value" THEN [m EXCEPT !.den = m.den * MEGA] ELSE m

(***************************************************************************)
(* Maps (BTreeMap) and orderings                                           *)
(***************************************************************************)
EmptyMap == [x \in {} |-> 0]

\* BTreeMap::insert: a later insert for the same key replaces the value
MapInsert(f, key, v) ==
    [x \in (DOMAIN f) \cup {key} |-> IF x = key THEN v ELSE f[x]]

SetMin(S) == CHOOSE x \in S : \A y \in S : x <= y

\* ascending numeric order: BTreeMap<usize, _> iteration, Vec::sort
RECURSIVE SortedIds(_)
SortedIds(S) ==
    IF S = {} THEN <<>> ELSE <<SetMin(S)>> \o SortedIds(S \ {SetMin(S)})

\* the values of a map in ascending key order (BTreeMap::into_values)
MapValues(f) == [i \in 1..Cardinality(DOMAIN f) |-> f[SortedIds(DOMAIN f)[i]]]

(***************************************************************************)
(* Decimal text of a core id and the order of sysfs paths                  *)
(***************************************************************************)
DigitChar(d) ==
    CASE d = 0 -> "0" [] d = 1 -> "1" [] d = 2 -> "2" [] d = 3 -> "3"
      [] d = 4 -> "4" [] d = 5 -> "5" [] d = 6 -> "6" [] d = 7 -> "7"
      [] d = 8 -> "8" [] d = 9 -> "9"

IsDigit(c) == c \in {"0", "1", "2", "3", "4", "5", "6", "7", "8", "9"}

DigitValue(c) ==
    CASE c = "0" -> 0 [] c = "1" -> 1 [] c = "2" -> 2 [] c = "3" -> 3
      [] c = "4" -> 4 [] c = "5" -> 5 [] c = "6" -> 6 [] c = "7" -> 7
      [] c = "8" -> 8 [] c = "9" -> 9

\* format!("{id}")
RECURSIVE Decimal(_)
Decimal(n) ==
    IF n < 10 THEN <<DigitChar(n)>> ELSE Decimal(n \div 10) \o <<DigitChar(n % 10)>>

\* the one path component that differs between cores: "cpu{id}"
sysfs_cpu_path(id) == <<"c", "p", "u">> \o Decimal(id)

\* byte value of the characters a path component is made of
CharCode(c) ==
    IF IsDigit(c) THEN 48 + DigitValue(c)
    ELSE CASE c = "c" -> 99 [] c = "p" -> 112 [] c = "u" -> 117

\* Ord for PathBuf: component-wise, each component byte-wise
RECURSIVE PathLess(_, _)
PathLess(p, q) ==
    IF p = <<>> THEN q # <<>>
    ELSE IF q = <<>> THEN FALSE
    ELSE IF CharCode(Head(p)) # CharCode(Head(q))
         THEN CharCode(Head(p)) < CharCode(Head(q))
         ELSE PathLess(Tail(p), Tail(q))

\* the ids of a BTreeMap<PathBuf, _> built from cpuset, in iteration order
RECURSIVE PathOrder(_)
PathOrder(S) ==
    IF S = {} THEN <<>>
    ELSE LET first == CHOOSE x \in S :
                 \A y \in S \ {x} : PathLess(sysfs_cpu_path(x), sysfs_cpu_path(y))
         IN  <<first>> \o PathOrder(S \ {first})

(***************************************************************************)
(* src/probe.rs: the decimal MHz value of /proc/cpuinfo as a raw sample    *)
(***************************************************************************)
RECURSIVE Pow2(_)
Pow2(k) == IF k = 0 THEN 1 ELSE 2 * Pow2(k - 1)

RECURSIVE Pow2Mod(_, _)
Pow2Mod(k, m) == IF k = 0 THEN 1 % m ELSE (2 * Pow2Mod(k - 1, m)) % m

\* for n >= 1000: the i >= 0 with 1000 * 2^i <= n < 1000 * 2^(i+1)
RECURSIVE BinadeUp(_, _)
BinadeUp(n, i) == IF 1000 * Pow2(i + 1) <= n THEN BinadeUp(n, i + 1) ELSE i

\* for 1 <= n < 1000: the s >= 1 with 1000 <= n * 2^s < 2000
RECURSIVE BinadeDown(_, _)
BinadeDown(n, s) == IF n * Pow2(s) < 1000 THEN BinadeDown(n, s + 1) ELSE s

\* line.parse::<f64>() of the text with thousandths n, then
\* (frequency_mhz * 1000.0) as u64, in IEEE-754 binary64 arithmetic:
\*   x = m * 2^(i-52) is the double nearest n/1000 (ties to even), with
\*       m = round(n * 2^(52-i) / 1000) and r the remainder of that division;
\*   x * 1000.0 is exactly n - r * 2^(i-52) when m was rounded down, and is
\*       rounded to the nearest double again;
\*   the cast truncates.
\* The doubles just below n are 2^(j-52) apart, j = floor(log2 n); the
\* product falls below n only when j = i + 9 (n in [1000*2^i, 1024*2^i)) and
\* its distance r/512 of that spacing exceeds one half.
mhz_to_sample(n) ==
    IF n = 0 THEN 0
    ELSE LET up == n >= 1000
             i == IF up THEN BinadeUp(n, 0) ELSE 0 - BinadeDown(n, 1)
             narrow == IF up THEN n < 1024 * Pow2(i)
                             ELSE n * Pow2(0 - i) < 1024
             t == ((n % 2000) * Pow2Mod(52 - i, 2000)) % 2000
             r == t % 1000
             quotientOdd == t >= 1000
             roundedDown == r < 500 \/ (r = 500 /\ ~quotientOdd)
         IN  IF narrow /\ roundedDown /\ r > 256 THEN n - 1 ELSE n

(***************************************************************************)
(* src/probe.rs: parse_procfs_cpuinfo                                      *)
(*                                                                         *)
(* A line of /proc/cpuinfo is [k, v]:                                      *)
(*   "processor"          "processor : v"     (v a core id)                *)
(*   "processor_nodelim"  starts with "processor", no ":" after it         *)
(*   "processor_badid"    "processor : " followed by no usize              *)
(*   "mhz"                "cpu MHz : D.ddd"   (v the thousandths)          *)
(*   "mhz_nodelim"        starts with "cpu MHz", no ":" after it           *)
(*   "mhz_badvalue"       "cpu MHz : " followed by no f64                  *)
(*   "other"              any other line                                   *)
(*   "ioerr"              the read of this line fails (lines() yields Err) *)
(* A file is [opens, lines].                                               *)
(***************************************************************************)
Line(k, v) == [k |-> k, v |-> v]

MhzPrefixed(l) == l.k \in {"mhz", "mhz_nodelim", "mhz_badvalue"}
ProcessorPrefixed(l) ==
    l.k \in {"processor", "processor_nodelim", "processor_badid"}

\* mutant: the marker's id is not checked against the tracked set
RECURSIVE parse_lines_untracked(_, _, _, _)
parse_lines_untracked(cpuset, lines, current, freqs) ==
    IF lines = <<>> THEN [kind |-> "ok", freqs |-> freqs, ioerr |-> FALSE]
    ELSE LET l == Head(lines)
             rest == Tail(lines)
         IN  IF l.k = "ioerr"
             THEN [kind |-> "ok", freqs |-> freqs, ioerr |-> TRUE]
             ELSE IF current # None
             THEN IF ~MhzPrefixed(l)
                  THEN parse_lines_untracked(cpuset, rest, current, freqs)
                  ELSE IF l.k = "mhz_nodelim"
                  THEN [kind |-> "exit", freqs |-> freqs, ioerr |-> FALSE]
                  ELSE IF l.k = "mhz_badvalue"
                  THEN [kind |-> "panic", freqs |-> freqs, ioerr |-> FALSE]
                  ELSE parse_lines_untracked(cpuset, rest, None,
                           MapInsert(freqs, current, mhz_to_sample(l.v)))
             ELSE IF ~ProcessorPrefixed(l)
                  THEN parse_lines_untracked(cpuset, rest, current, freqs)
                  ELSE IF l.k = "processor_nodelim"
                  THEN [kind |-> "exit", freqs |-> freqs, ioerr |-> FALSE]
                  ELSE IF l.k = "processor_badid"
                  THEN [kind |-> "panic", freqs |-> freqs, ioerr |-> FALSE]
                  ELSE parse_lines_untracked(cpuset, rest, l.v, freqs)

\* the loop over reader.lines().map_while(Result::ok): `current` and
\* `cpu_frequencies` are the loop's two variables
RECURSIVE parse_lines(_, _, _, _)
parse_lines(cpuset, lines, current, freqs) ==
    IF lines = <<>> THEN [kind |-> "ok", freqs |-> freqs, ioerr |-> FALSE]
    ELSE LET l == Head(lines)
             rest == Tail(lines)
         IN  IF l.k = "ioerr"
             \* map_while(Result::ok) ends the iteration at the first Err
             THEN [kind |-> "ok", freqs |-> freqs, ioerr |-> TRUE]
             ELSE IF current # None
             THEN IF ~MhzPrefixed(l)
                  THEN parse_lines(cpuset, rest, current, freqs)
                  ELSE IF l.k = "mhz_nodelim"
                  THEN [kind |-> "exit", freqs |-> freqs, ioerr |-> FALSE]
                  ELSE IF l.k = "mhz_badvalue"
                  THEN [kind |-> "panic", freqs |-> freqs, ioerr |-> FALSE]
                  ELSE parse_lines(cpuset, rest, None,
                           MapInsert(freqs, current, mhz_to_sample(l.v)))
             ELSE IF ~ProcessorPrefixed(l)
                  THEN parse_lines(cpuset, rest, current, freqs)
                  ELSE IF l.k = "processor_nodelim"
                  THEN [kind |-> "exit", freqs |-> freqs, ioerr |-> FALSE]
                  ELSE IF l.k = "processor_badid"
                  THEN [kind |-> "panic", freqs |-> freqs, ioerr |-> FALSE]
                  ELSE parse_lines(cpuset, rest,
                           IF l.v \in cpuset THEN l.v ELSE None, freqs)

\* File::open(..).expect(..) panics; otherwise the loop decides
parse_procfs_cpuinfo(cpuset, file) ==
    IF ~file.opens
    THEN [kind |-> "panic", freqs |-> EmptyMap, ioerr |-> FALSE]
    ELSE parse_lines(cpuset, file.lines, None, EmptyMap)

(***************************************************************************)
(* src/probe.rs: read_sysfs_uint.  A per-core file is [state, v]:          *)
(*   "ok"           the first token is the unsigned integer v              *)
(*   "unavailable"  open or read fails                                     *)
(*   "malformed"    no token, or a token that is no u64                    *)
(***************************************************************************)
read_sysfs_uint(f) ==
    IF f.state = "ok" THEN [kind |-> "ok", v |-> f.v]
    ELSE [kind |-> "panic", v |-> 0]

(***************************************************************************)
(* src/probe.rs: validate_cpuset.  A string is a sequence of characters.   *)
(***************************************************************************)
\* str::split(","): the tokens between commas; "" gives one empty token
RECURSIVE SplitAcc(_, _, _)
SplitAcc(s, tok, acc) ==
    IF s = <<>> THEN Append(acc, tok)
    ELSE IF Head(s) = "," THEN SplitAcc(Tail(s), <<>>, Append(acc, tok))
    ELSE SplitAcc(Tail(s), Append(tok, Head(s)), acc)

Split(s) == SplitAcc(s, <<>>, <<>>)

RECURSIVE DigitsValue(_, _)
DigitsValue(ds, acc) ==
    IF ds = <<>> THEN acc ELSE DigitsValue(Tail(ds), 10 * acc + DigitValue(Head(ds)))

\* str::parse::<usize>(): an optional "+", then one or more decimal digits;
\* None stands for Err
parse_usize(tok) ==
    LET ds == IF tok # <<>> /\ Head(tok) = "+" THEN Tail(tok) ELSE tok
    IN  IF ds = <<>> \/ \E i \in 1..Len(ds) : ~IsDigit(ds[i])
        THEN None
        ELSE DigitsValue(ds, 0)

\* mutant: an invalid token is skipped instead of failing the call
RECURSIVE validate_tokens_skipping(_, _)
validate_tokens_skipping(toks, ids) ==
    IF toks = <<>> THEN [kind |-> "ok", ids |-> ids, token |-> <<>>]
    ELSE LET id == parse_usize(Head(toks))
         IN  IF id = None
             THEN validate_tokens_skipping(Tail(toks), ids)
             ELSE validate_tokens_skipping(Tail(toks), ids \cup {id})

\* the for loop: `?` returns at the first token that does not parse
RECURSIVE validate_tokens(_, _)
validate_tokens(toks, ids) ==
    IF toks = <<>> THEN [kind |-> "ok", ids |-> ids, token |-> <<>>]
    ELSE LET id == parse_usize(Head(toks))
         IN  IF id = None
             THEN [kind |-> "InvalidCpuId", ids |-> {}, token |-> Head(toks)]
             ELSE validate_tokens(Tail(toks), ids \cup {id})

validate_cpuset(cpuset) == validate_tokens(Split(cpuset), {})

(***************************************************************************)
(* src/probe.rs and src/main.rs: construction of the per-core statistics   *)
(***************************************************************************)
\* cpuset_with_stats takes no window size: every CpuStat gets WINDOW_SIZE
cpuset_with_stats(cpuset) ==
    [id \in cpuset |-> CpuStat_new(id, WINDOW_SIZE)]

\* Runner::monitor, sysfs branch: cpu_stats built from the keys of cpu_files
monitor_sysfs_stats(cpuset, window_size) ==
    [id \in cpuset |-> CpuStat_new(id, window_size)]

\* Runner::get_log_header: "cpu{id}" in ascending numeric id order
get_log_header(cpuset) ==
    [i \in 1..Cardinality(cpuset) |-> sysfs_cpu_path(SortedIds(cpuset)[i])]

\* the raw sample of the sysfs branch of Runner::monitor
sysfs_sample(v) == v * KILO

(***************************************************************************)
(* Inputs                                                                  *)
(***************************************************************************)
\* raw values given to add_sample in the CpuStat specification
SampleValues == {1, 2, 5}

\* true core frequencies, in kHz: 1001 is "1.001" MHz in /proc/cpuinfo
FreqKHz == {1001, 2500}

\* the cores of the machine and the tracked sets
AllCores == {2, 10}
CpuSets == {{2}, {2, 10}}

\* --window-size (None: not given) and --update-freq
WindowOptions == {None, 0, 1}
UpdateFreqs == {0, 1}
\* log duration_ms
Durations == {0, 2}
\* by how much a sleep may overrun sample_interval, ms
Oversleep == {0, 1}
\* wall-clock time one read of a source takes in the log loop, ms
ReadTime == {0, 1}

\* characters of a --cpuset string, and the two strings of the specification
CpusetChars == {"0", "2", "+", "x", ","}
CpusetExamples ==
    { <<"0", ",", "2", ",", "2", ",", "5">>, <<"0", ",", "x", ",", "5">> }
CpusetInputs ==
    UNION {[1..n -> CpusetChars] : n \in 0..MaxStrLen} \cup CpusetExamples

\* lines of /proc/cpuinfo
ProcfsLines ==
    {Line("processor", id) : id \in AllCores}
      \cup {Line("mhz", n) : n \in FreqKHz}
      \cup {Line(k, 0) : k \in {"other", "processor_nodelim", "processor_badid",
                                "mhz_nodelim", "mhz_badvalue", "ioerr"}}

Unopened == [opens |-> FALSE, lines |-> <<>>]

ProcfsFiles ==
    {[opens |-> TRUE, lines |-> ls] :
        ls \in UNION {[1..n -> ProcfsLines] : n \in 0..MaxLines}}
      \cup {Unopened}

\* /proc/cpuinfo as the kernel writes it: one block per present core, in
\* ascending id order, each a marker line and the core's frequency
RECURSIVE Blocks(_, _)
Blocks(ids, freq) ==
    IF ids = <<>> THEN <<>>
    ELSE <<Line("processor", Head(ids)), Line("mhz", freq[Head(ids)])>>
           \o Blocks(Tail(ids), freq)

\* ... of which the read fails after `cut` lines (None: never)
KernelFile(present, freq, cut) ==
    LET ls == Blocks(SortedIds(present), freq)
    IN  [opens |-> TRUE,
         lines |-> IF cut = None THEN ls
                   ELSE SubSeq(ls, 1, Min(cut, Len(ls))) \o <<Line("ioerr", 0)>>]

\* the files the Runner's polls may see
RunnerFiles ==
    {KernelFile(present, freq, cut) :
        present \in SUBSET AllCores, freq \in [AllCores -> FreqKHz],
        cut \in {None} \cup 0..3}
      \cup {Unopened,
            [opens |-> TRUE, lines |-> <<Line("processor_nodelim", 0)>>],
            [opens |-> TRUE, lines |-> <<Line("processor", 2), Line("mhz_badvalue", 0)>>]}

\* per-core sysfs files
SysfsFiles ==
    {[state |-> "ok", v |-> k] : k \in FreqKHz}
      \cup {[state |-> "unavailable", v |-> 0], [state |-> "malformed", v |-> 0]}

\* the frequency the file states for each core that has a complete block
FileFreqs(ls) ==
    LET has(id) == \E i \in 1..(Len(ls) - 1) :
                      ls[i] = Line("processor", id) /\ ls[i + 1].k = "mhz"
        at(id) == CHOOSE i \in 1..(Len(ls) - 1) :
                      ls[i] = Line("processor", id) /\ ls[i + 1].k = "mhz"
    IN  [id \in {c \in AllCores : has(c)} |-> ls[at(id) + 1].v]

Configs ==
    {[interface |-> i, mode |-> "monitor", update_freq |-> u, window_size |-> w,
      duration_ms |-> 0, cpuset |-> c] :
        i \in {"sysfs", "procfs"}, u \in UpdateFreqs, w \in WindowOptions,
        c \in CpuSets}
      \cup
    {[interface |-> i, mode |-> "log", update_freq |-> None, window_size |-> None,
      duration_ms |-> d, cpuset |-> c] :
        i \in {"sysfs", "procfs"}, d \in Durations, c \in CpuSets}

(***************************************************************************)
(* State                                                                   *)
(***************************************************************************)
VARIABLES
    \* one CpuStat on its own: the statistic, every sample fed to it so far,
    \* and the result of the last mean()/avg_mhz() call
    stat, fedHist, lastMean,
    \* validate_cpuset on its own: the string and the result
    vinput, vresult,
    \* parse_procfs_cpuinfo on its own: tracked set, file and result
    pcpuset, pfile, presult,
    \* the Runner
    pc,         \* position of the single thread of control
    cfg,        \* interface, output mode and options, cpuset
    cpu_stats,  \* core id -> CpuStat (monitor)
    clock,      \* wall clock, ms
    next,       \* monitor: the display deadline
    endt,       \* log: the end time
    ticks,      \* completed ticks
    todo,       \* sysfs: the cores still to read on this tick, in path order
    polled,     \* procfs: the mapping of this tick's poll
    record,     \* log: the CSV record being built
    header,     \* log: the header row written
    rows,       \* log: the data rows written
    renders,    \* monitor: the times of the renders
    screen,     \* monitor: the lines of the last render, core id -> avg_mhz
    tickFreq,   \* the true frequency (kHz) of each core sampled on this tick
    lastFed,    \* the raw sample given to add_sample for each core on this tick
    readFailed, \* a source could not be opened or read
    feeds       \* core id -> number of add_sample calls on this tick

statVars == <<stat, fedHist, lastMean>>
validateVars == <<vinput, vresult>>
procfsVars == <<pcpuset, pfile, presult>>
runnerVars ==
    <<pc, cfg, cpu_stats, clock, next, endt, ticks, todo, polled, record,
      header, rows, renders, screen, tickFreq, lastFed, readFailed, feeds>>
vars == <<statVars, validateVars, procfsVars, runnerVars>>

NoMean == [len |-> None, mean |-> [kind |-> "none", num |-> 0, den |-> 0],
           avg |-> [kind |-> "none", num |-> 0, den |-> 0]]
Pending == [kind |-> "pending"]

StatIdle == stat = CpuStat_new(0, 1) /\ fedHist = <<>> /\ lastMean = NoMean
ValidateIdle == vinput = <<>> /\ vresult = Pending
ProcfsIdle == pcpuset = {} /\ pfile = Unopened /\ presult = Pending
RunnerIdle ==
    /\ pc = "idle"
    /\ cfg = [interface |-> "sysfs", mode |-> "log", update_freq |-> None,
              window_size |-> None, duration_ms |-> 0, cpuset |-> {}]
    /\ cpu_stats = EmptyMap /\ clock = 0 /\ next = 0 /\ endt = 0 /\ ticks = 0
    /\ todo = <<>> /\ polled = EmptyMap /\ record = <<>> /\ header = <<>>
    /\ rows = <<>> /\ renders = <<>> /\ screen = EmptyMap
    /\ tickFreq = EmptyMap /\ lastFed = EmptyMap /\ readFailed = FALSE
    /\ feeds = EmptyMap

(***************************************************************************)
(* CpuStat on its own                                                      *)
(***************************************************************************)
InitCpuStat ==
    /\ \E w \in 0..MaxWindow : stat = CpuStat_new(0, w)
    /\ fedHist = <<>>
    /\ lastMean = NoMean
    /\ ValidateIdle /\ ProcfsIdle /\ RunnerIdle

AddSample ==
    /\ Len(fedHist) < MaxFeed
    /\ \E v \in SampleValues :
          /\ stat' = add_sample(stat, v)
          /\ fedHist' = Append(fedHist, v)
    /\ UNCHANGED <<lastMean, validateVars, procfsVars, runnerVars>>

Mean ==
    /\ lastMean' = [len |-> Len(stat.frequency_samples),
                    mean |-> mean(stat), avg |-> avg_mhz(stat)]
    /\ UNCHANGED <<stat, fedHist, validateVars, procfsVars, runnerVars>>

NextCpuStat == AddSample \/ Mean

SpecCpuStat == InitCpuStat /\ [][NextCpuStat]_vars

(***************************************************************************)
(* validate_cpuset on its own                                              *)
(***************************************************************************)
InitValidate ==
    /\ vinput \in CpusetInputs
    /\ vresult = Pending
    /\ StatIdle /\ ProcfsIdle /\ RunnerIdle

Validate ==
    /\ vresult = Pending
    /\ vresult' = validate_cpuset(vinput)
    /\ UNCHANGED <<vinput, statVars, procfsVars, runnerVars>>

NextValidate == Validate

SpecValidate == InitValidate /\ [][NextValidate]_vars

(***************************************************************************)
(* parse_procfs_cpuinfo on its own                                         *)
(***************************************************************************)
InitProcfs ==
    /\ pcpuset \in CpuSets
    /\ pfile \in ProcfsFiles
    /\ presult = Pending
    /\ StatIdle /\ ValidateIdle /\ RunnerIdle

ParseProcfs ==
    /\ presult = Pending
    /\ presult' = parse_procfs_cpuinfo(pcpuset, pfile)
    /\ UNCHANGED <<pcpuset, pfile, statVars, validateVars, runnerVars>>

NextProcfs == ParseProcfs

SpecProcfs == InitProcfs /\ [][NextProcfs]_vars

(***************************************************************************)
(* src/main.rs: the Runner                                                 *)
(*                                                                         *)
(* pc: "start" -> monitor: "poll" -> ("feed" ->) "display" -> "sleep" -> .. *)
(*             -> log: "logcheck" -> "logpoll" -> "logwrite" -> "sleep" -> *)
(*                     "logcheck" .. -> "done"                             *)
(* "panic" (expect/unwrap) and "exit" (exit(1)) end the process.           *)
(***************************************************************************)
Init ==
    /\ pc = "start"
    /\ cfg \in Configs
    /\ cpu_stats = EmptyMap /\ clock = 0 /\ next = 0 /\ endt = 0 /\ ticks = 0
    /\ todo = <<>> /\ polled = EmptyMap /\ record = <<>> /\ header = <<>>
    /\ rows = <<>> /\ renders = <<>> /\ screen = EmptyMap
    /\ tickFreq = EmptyMap /\ lastFed = EmptyMap /\ readFailed = FALSE
    /\ feeds = [id \in cfg.cpuset |-> 0]
    /\ StatIdle /\ ValidateIdle /\ ProcfsIdle

\* Runner::new: Duration::from_millis(sample_frequency_ms), with main's
\* default for --sample-freq
sample_interval == DEFAULT_SAMPLE_FREQUENCY

\* Runner::run: window_size.unwrap_or(DEFAULT_WINDOW_SIZE)
ConfiguredWindow(c) ==
    IF c.window_size = None THEN DEFAULT_WINDOW_SIZE ELSE c.window_size

\* Runner::run -> Runner::monitor up to the loop
RunMonitor ==
    /\ pc = "start"
    /\ cfg.mode = "monitor"
    /\ next' = clock + cfg.update_freq
    /\ IF cfg.interface = "sysfs"
       THEN /\ cpu_stats' = monitor_sysfs_stats(cfg.cpuset, ConfiguredWindow(cfg))
            /\ todo' = PathOrder(cfg.cpuset)
       ELSE /\ cpu_stats' = cpuset_with_stats(cfg.cpuset)
            /\ todo' = <<>>
    /\ pc' = "poll"
    /\ UNCHANGED <<cfg, clock, endt, ticks, polled, record, header, rows,
                   renders, screen, tickFreq, lastFed, readFailed>>
    /\ UNCHANGED <<statVars, validateVars, procfsVars, feeds>>

\* Runner::monitor, sysfs: one iteration of `for (id, path) in &mut cpu_files`.
\* cpu_files is keyed by the core's path, so the cores are read in path
\* order; each entry stands for one core, whose file is read and whose
\* CpuStat in cpu_stats takes the sample.
MonitorSysfsRead ==
    /\ pc = "poll"
    /\ cfg.interface = "sysfs"
    /\ ticks < MaxTicks
    /\ todo # <<>>
    /\ \E f \in SysfsFiles :
          LET r == read_sysfs_uint(f)
              id == Head(todo)
              sample == sysfs_sample(r.v)
          IN  IF r.kind = "panic"
              THEN /\ pc' = "panic"
                   /\ readFailed' = (readFailed \/ f.state = "unavailable")
                   /\ UNCHANGED <<cpu_stats, todo, tickFreq, lastFed, feeds>>
              ELSE /\ cpu_stats' = [cpu_stats EXCEPT ![id] = add_sample(@, sample)]
                   /\ feeds' = [feeds EXCEPT ![id] = @ + 1]
                   /\ todo' = Tail(todo)
                   /\ tickFreq' = MapInsert(tickFreq, id, f.v)
                   /\ lastFed' = MapInsert(lastFed, id, sample)
                   /\ pc' = IF Tail(todo) = <<>> THEN "display" ELSE "poll"
                   /\ UNCHANGED readFailed
    /\ UNCHANGED <<cfg, clock, next, endt, ticks, polled, record, header, rows,
                   renders, screen>>
    /\ UNCHANGED <<statVars, validateVars, procfsVars>>

\* MonitorProcfsPoll going to the display check without the update
MonitorProcfsPoll_skips_update ==
    /\ pc = "poll"
    /\ cfg.interface = "procfs"
    /\ ticks < MaxTicks
    /\ \E file \in RunnerFiles :
          LET r == parse_procfs_cpuinfo(cfg.cpuset, file)
          IN  /\ readFailed' = (readFailed \/ ~file.opens \/ r.ioerr)
              /\ IF r.kind = "ok"
                 THEN /\ polled' = r.freqs
                      /\ tickFreq' = FileFreqs(file.lines)
                      /\ pc' = "display"
                 ELSE /\ pc' = r.kind
                      /\ UNCHANGED <<polled, tickFreq>>
    /\ UNCHANGED <<cfg, cpu_stats, clock, next, endt, ticks, todo, record,
                   header, rows, renders, screen, lastFed>>
    /\ UNCHANGED <<statVars, validateVars, procfsVars, feeds>>

\* Runner::monitor, procfs: parse_procfs_cpuinfo(..).context(..).unwrap()
MonitorProcfsPoll ==
    /\ pc = "poll"
    /\ cfg.interface = "procfs"
    /\ ticks < MaxTicks
    /\ \E file \in RunnerFiles :
          LET r == parse_procfs_cpuinfo(cfg.cpuset, file)
          IN  /\ readFailed' = (readFailed \/ ~file.opens \/ r.ioerr)
              /\ IF r.kind = "ok"
                 THEN /\ polled' = r.freqs
                      /\ tickFreq' = FileFreqs(file.lines)
                      /\ pc' = "feed"
                 ELSE /\ pc' = r.kind
                      /\ UNCHANGED <<polled, tickFreq>>
    /\ UNCHANGED <<cfg, cpu_stats, clock, next, endt, ticks, todo, record,
                   header, rows, renders, screen, lastFed>>
    /\ UNCHANGED <<statVars, validateVars, procfsVars, feeds>>

\* MonitorProcfsFeed treating a tracked core absent from the poll as zero
MonitorProcfsFeed_absent_as_zero ==
    /\ pc = "feed"
    /\ cpu_stats' = [id \in DOMAIN cpu_stats |->
                        IF id \in DOMAIN polled
                        THEN add_sample(cpu_stats[id], polled[id])
                        ELSE add_sample(cpu_stats[id], 0)]
    /\ lastFed' = [id \in DOMAIN cpu_stats |->
                      IF id \in DOMAIN polled THEN polled[id] ELSE 0]
    /\ feeds' = [id \in DOMAIN feeds |->
                    IF id \in DOMAIN cpu_stats THEN feeds[id] + 1 ELSE feeds[id]]
    /\ pc' = "display"
    /\ UNCHANGED <<cfg, clock, next, endt, ticks, todo, polled, record, header,
                   rows, renders, screen, tickFreq, readFailed>>
    /\ UNCHANGED <<statVars, validateVars, procfsVars>>

\* Runner::monitor, procfs: `for (id, sample) in cpu_frequencies`
MonitorProcfsFeed ==
    /\ pc = "feed"
    /\ cpu_stats' = [id \in DOMAIN cpu_stats |->
                        IF id \in DOMAIN polled
                        THEN add_sample(cpu_stats[id], polled[id])
                        ELSE cpu_stats[id]]
    /\ lastFed' = [id \in (DOMAIN polled) \cap (DOMAIN cpu_stats) |-> polled[id]]
    /\ feeds' = [id \in DOMAIN feeds |->
                    IF id \in (DOMAIN polled) \cap (DOMAIN cpu_stats)
                    THEN feeds[id] + 1 ELSE feeds[id]]
    /\ pc' = "display"
    /\ UNCHANGED <<cfg, clock, next, endt, ticks, todo, polled, record, header,
                   rows, renders, screen, tickFreq, readFailed>>
    /\ UNCHANGED <<statVars, validateVars, procfsVars>>

\* Display rescheduling from the missed deadline instead of from `now`
Display_from_missed_deadline ==
    /\ pc = "display"
    /\ IF clock > next
       THEN /\ next' = next + cfg.update_freq
            /\ renders' = Append(renders, clock)
            /\ screen' = [id \in DOMAIN cpu_stats |-> avg_mhz(cpu_stats[id])]
       ELSE UNCHANGED <<next, renders, screen>>
    /\ pc' = "sleep"
    /\ UNCHANGED <<cfg, cpu_stats, clock, endt, ticks, todo, polled, record,
                   header, rows, tickFreq, lastFed, readFailed>>
    /\ UNCHANGED <<statVars, validateVars, procfsVars, feeds>>

\* Runner::monitor: now = SystemTime::now(); if now > next { .. }
Display ==
    /\ pc = "display"
    /\ IF clock > next
       THEN /\ next' = clock + cfg.update_freq
            /\ renders' = Append(renders, clock)
            /\ screen' = [id \in DOMAIN cpu_stats |-> avg_mhz(cpu_stats[id])]
       ELSE UNCHANGED <<next, renders, screen>>
    /\ pc' = "sleep"
    /\ UNCHANGED <<cfg, cpu_stats, clock, endt, ticks, todo, polled, record,
                   header, rows, tickFreq, lastFed, readFailed>>
    /\ UNCHANGED <<statVars, validateVars, procfsVars, feeds>>

\* sleep(self.sample_interval), the end of a tick in both modes
Sleep ==
    /\ pc = "sleep"
    /\ \E j \in Oversleep : clock' = clock + sample_interval + j
    /\ ticks' = ticks + 1
    /\ pc' = IF cfg.mode = "monitor" THEN "poll" ELSE "logcheck"
    /\ todo' = IF cfg.interface = "sysfs" THEN PathOrder(cfg.cpuset) ELSE <<>>
    /\ polled' = EmptyMap
    /\ tickFreq' = EmptyMap
    /\ lastFed' = EmptyMap
    /\ feeds' = [id \in cfg.cpuset |-> 0]
    /\ UNCHANGED <<cfg, cpu_stats, next, endt, record, header, rows, renders,
                   screen, readFailed>>
    /\ UNCHANGED <<statVars, validateVars, procfsVars>>

\* Runner::run -> Runner::log up to the loop: open the destination, write
\* the header, fix the end time
RunLog ==
    /\ pc = "start"
    /\ cfg.mode = "log"
    /\ \E opened \in BOOLEAN :
          IF opened
          THEN /\ header' = get_log_header(cfg.cpuset)
               /\ endt' = clock + cfg.duration_ms
               /\ todo' = IF cfg.interface = "sysfs"
                          THEN PathOrder(cfg.cpuset) ELSE <<>>
               /\ pc' = "logcheck"
          ELSE /\ pc' = "panic"
               /\ UNCHANGED <<header, endt, todo>>
    /\ UNCHANGED <<cfg, cpu_stats, clock, next, ticks, polled, record, rows,
                   renders, screen, tickFreq, lastFed, readFailed>>
    /\ UNCHANGED <<statVars, validateVars, procfsVars, feeds>>

\* LogCheck with the end time computed again on every iteration
LogCheck_sliding_end ==
    /\ pc = "logcheck"
    /\ pc' = IF clock < clock + cfg.duration_ms THEN "logpoll" ELSE "done"
    /\ UNCHANGED <<cfg, cpu_stats, clock, next, endt, ticks, todo, polled,
                   record, header, rows, renders, screen, tickFreq, lastFed,
                   readFailed>>
    /\ UNCHANGED <<statVars, validateVars, procfsVars, feeds>>

\* LogCheck with an inclusive comparison
LogCheck_inclusive ==
    /\ pc = "logcheck"
    /\ pc' = IF clock <= endt THEN "logpoll" ELSE "done"
    /\ UNCHANGED <<cfg, cpu_stats, clock, next, endt, ticks, todo, polled,
                   record, header, rows, renders, screen, tickFreq, lastFed,
                   readFailed>>
    /\ UNCHANGED <<statVars, validateVars, procfsVars, feeds>>

\* Runner::log: while SystemTime::now() < end
LogCheck ==
    /\ pc = "logcheck"
    /\ pc' = IF clock < endt THEN "logpoll" ELSE "done"
    /\ UNCHANGED <<cfg, cpu_stats, clock, next, endt, ticks, todo, polled,
                   record, header, rows, renders, screen, tickFreq, lastFed,
                   readFailed>>
    /\ UNCHANGED <<statVars, validateVars, procfsVars, feeds>>

\* Runner::log, sysfs: one iteration of `for path in &mut cpu_files.values()`;
\* the field is the decimal text of the value read, kept as the number; the
\* read takes ReadTime of wall-clock time
LogSysfsRead ==
    /\ pc = "logpoll"
    /\ cfg.interface = "sysfs"
    /\ ticks < MaxTicks
    /\ todo # <<>>
    /\ \E f \in SysfsFiles :
          LET r == read_sysfs_uint(f)
          IN  IF r.kind = "panic"
              THEN /\ pc' = "panic"
                   /\ readFailed' = (readFailed \/ f.state = "unavailable")
                   /\ UNCHANGED <<record, todo, tickFreq>>
              ELSE /\ record' = Append(record, r.v)
                   /\ todo' = Tail(todo)
                   /\ tickFreq' = MapInsert(tickFreq, Head(todo), f.v)
                   /\ pc' = IF Tail(todo) = <<>> THEN "logwrite" ELSE "logpoll"
                   /\ UNCHANGED readFailed
    /\ \E d \in ReadTime : clock' = clock + d
    /\ UNCHANGED <<cfg, cpu_stats, next, endt, ticks, polled, header,
                   rows, renders, screen, lastFed>>
    /\ UNCHANGED <<statVars, validateVars, procfsVars, feeds>>

\* Runner::log, procfs: the poll; the record is the mapping's values in
\* ascending id order
LogProcfsPoll ==
    /\ pc = "logpoll"
    /\ cfg.interface = "procfs"
    /\ ticks < MaxTicks
    /\ \E file \in RunnerFiles :
          LET r == parse_procfs_cpuinfo(cfg.cpuset, file)
          IN  /\ readFailed' = (readFailed \/ ~file.opens \/ r.ioerr)
              /\ IF r.kind = "ok"
                 THEN /\ polled' = r.freqs
                      /\ record' = MapValues(r.freqs)
                      /\ tickFreq' = FileFreqs(file.lines)
                      /\ pc' = "logwrite"
                 ELSE /\ pc' = r.kind
                      /\ UNCHANGED <<polled, record, tickFreq>>
    /\ \E d \in ReadTime : clock' = clock + d
    /\ UNCHANGED <<cfg, cpu_stats, next, endt, ticks, todo, header, rows,
                   renders, screen, lastFed>>
    /\ UNCHANGED <<statVars, validateVars, procfsVars, feeds>>

\* csv::Writer::write_record(..).expect(..): a record whose field count
\* differs from the first record's (the header's) is an error
LogWrite ==
    /\ pc = "logwrite"
    /\ IF Len(record) = Len(header)
       THEN /\ rows' = Append(rows, record)
            /\ record' = <<>>
            /\ pc' = "sleep"
       ELSE /\ pc' = "panic"
            /\ UNCHANGED <<rows, record>>
    /\ UNCHANGED <<cfg, cpu_stats, clock, next, endt, ticks, todo, polled,
                   header, renders, screen, tickFreq, lastFed, readFailed>>
    /\ UNCHANGED <<statVars, validateVars, procfsVars, feeds>>

Next ==
    \/ RunMonitor
    \/ MonitorSysfsRead
    \/ MonitorProcfsPoll
    \/ MonitorProcfsFeed
    \/ Display
    \/ Sleep
    \/ RunLog
    \/ LogCheck
    \/ LogSysfsRead
    \/ LogProcfsPoll
    \/ LogWrite

Spec == Init /\ [][Next]_vars

\* The runs in which loop exit is examined: every log configuration, and the
\* monitor configurations with the default window and a 1 ms display
\* interval (neither option is read by a loop condition).
InitLoopExit ==
    /\ Init
    /\ cfg.mode = "monitor" => cfg.window_size = None /\ cfg.update_freq = 1

\* The Runner is the only thread of the process and nothing suspends it:
\* whenever it has a step to take it eventually takes one (every read, write
\* and sleep it calls returns).
FairSpec == InitLoopExit /\ [][Next]_vars /\ WF_vars(Next)

(***************************************************************************)
(* Properties of CpuStat (SpecCpuStat)                                     *)
(***************************************************************************)
\* C1: for a capacity >= 1, the stored sum equals the sum of the values
\* held in the sample queue, in every state, also right after an eviction.
C1_SumIsSumOfSamples ==
    stat.window_size >= 1 => stat.sum = SumSeq(stat.frequency_samples)

\* an eviction has happened: more samples were fed than the window holds,
\* and the sum is that of the window, not of everything fed
C1_AfterEviction ==
    /\ stat.window_size >= 1
    /\ Len(fedHist) > stat.window_size
    /\ Len(stat.frequency_samples) = stat.window_size
    /\ stat.sum = SumSeq(stat.frequency_samples)
    /\ stat.sum # SumSeq(fedHist)

\* C2: whatever window_size CpuStat::new was given, the number of retained
\* samples never exceeds window_size.
C2_LenWithinWindow == Len(stat.frequency_samples) <= stat.window_size

\* C3: for a capacity C >= 1, after N samples the window is exactly the
\* last min(N, C) values fed, oldest first, and sum is their sum.
C3_WindowIsLastFed ==
    stat.window_size >= 1 =>
        LET k == Min(Len(fedHist), stat.window_size)
        IN  /\ stat.frequency_samples = LastN(fedHist, k)
            /\ stat.sum = SumSeq(LastN(fedHist, k))

\* [a, b, c] fed into capacity 2 leaves [b, c] and sum b + c
C3_ThreeIntoTwo ==
    /\ stat.window_size = 2
    /\ fedHist = <<1, 2, 5>>
    /\ stat.frequency_samples = <<2, 5>>
    /\ stat.sum = 7

\* C5: mean() and avg_mhz() on a CpuStat that holds no samples are rejected
\* with an error; no value is computed.  (Stated for the capacities >= 1,
\* so that it does not rest on a CpuStat of capacity 0.)
C5_EmptyMeanRejected ==
    (lastMean.len = 0 /\ stat.window_size >= 1) =>
        lastMean.mean.kind = "error" /\ lastMean.avg.kind = "error"

(***************************************************************************)
(* Properties of the Runner (Spec)                                         *)
(***************************************************************************)
\* C4: no CpuStat with capacity 0 ever exists in the Runner, also when the
\* window size given by the user is 0 (CpuStat::new fails for capacity 0).
C4_NoZeroCapacity ==
    \A id \in DOMAIN cpu_stats : cpu_stats[id].window_size # 0

\* C6: in monitor mode the raw sample given to add_sample for a core of
\* true frequency k kHz is the same number under the sysfs and under the
\* procfs interface.
C6_SampleInterfaceIndependent ==
    \A id \in (DOMAIN lastFed) \cap (DOMAIN tickFreq) :
        /\ lastFed[id] = sysfs_sample(tickFreq[id])
        /\ lastFed[id] = mhz_to_sample(tickFreq[id])

\* C7: in monitor mode, under both interfaces, every tracked core's CpuStat
\* has the capacity configured for the run (--window-size or the default),
\* from its construction on.  (Stated for the window sizes >= 1.)
C7_CapacityIsConfigured ==
    (cfg.mode = "monitor" /\ pc # "start" /\ ConfiguredWindow(cfg) >= 1) =>
        \A id \in cfg.cpuset :
            /\ id \in DOMAIN cpu_stats
            /\ cpu_stats[id].window_size = ConfiguredWindow(cfg)

\* C8: once opening or reading a source has failed, no add_sample is
\* applied, no render occurs and no CSV row is written any more.
C8_ReadFailureHalts ==
    [][readFailed =>
          (cpu_stats' = cpu_stats /\ renders' = renders /\ rows' = rows)]_vars

(***************************************************************************)
(* Properties of validate_cpuset (SpecValidate)                            *)
(***************************************************************************)
\* the tokens of a comma-delimited string, by the positions of its commas
CommaAt(s) == {i \in 1..Len(s) : s[i] = ","}
TokenStarts(s) == {1} \cup {i + 1 : i \in CommaAt(s)}
TokenFrom(s, a) ==
    LET ends == {i \in CommaAt(s) : i >= a} \cup {Len(s) + 1}
    IN  SubSeq(s, a, SetMin(ends) - 1)

\* a well-formed non-negative integer: one or more decimal digits, which
\* may follow a plus sign
WellFormedId(tok) ==
    LET signed == tok # <<>> /\ tok[1] = "+"
        first == IF signed THEN 2 ELSE 1
    IN  /\ first <= Len(tok)
        /\ \A i \in first..Len(tok) : \E d \in 0..9 : tok[i] = DigitChar(d)

RECURSIVE Pow10(_)
Pow10(k) == IF k = 0 THEN 1 ELSE 10 * Pow10(k - 1)

\* the number a well-formed token denotes: the sum of its digits' place values
IdOf(tok) ==
    LET first == IF tok[1] = "+" THEN 2 ELSE 1
        digit(i) == CHOOSE d \in 0..9 : tok[i] = DigitChar(d)
        RECURSIVE PlaceValues(_)
        PlaceValues(i) ==
            IF i > Len(tok) THEN 0
            ELSE digit(i) * Pow10(Len(tok) - i) + PlaceValues(i + 1)
    IN  PlaceValues(first)

C10_KeysAreTrackedCores ==
    presult.kind = "ok" =>
        /\ DOMAIN presult.freqs \subseteq pcpuset
        /\ \A id \in pcpuset :
              (\A i \in 1..Len(pfile.lines) :
                    pfile.lines[i] # Line("processor", id))
                  => id \notin DOMAIN presult.freqs

\* a file with a block for the untracked core 10 and none for the tracked
\* core 2: the mapping is empty
C10_UntrackedBlockOnly ==
    /\ pcpuset = {2}
    /\ pfile = [opens |-> TRUE,
                lines |-> <<Line("processor", 10), Line("mhz", 2500)>>]
    /\ presult.kind = "ok"
    /\ DOMAIN presult.freqs = {}

(***************************************************************************)
(* Properties of the Runner's loops (Spec)                                 *)
(***************************************************************************)
\* C11: in monitor mode a render happens only when the clock is strictly
\* past the display deadline, the render sets the next deadline to the
\* render-time clock plus the display interval, and any two consecutive
\* renders are more than the display interval apart.
C11_RenderPastDeadline ==
    /\ [][renders' # renders =>
             /\ cfg.mode = "monitor"
             /\ clock > next
             /\ renders' = Append(renders, clock)
             /\ next' = clock + cfg.update_freq]_vars
    /\ [](\A i \in 1..(Len(renders) - 1) :
             renders[i + 1] - renders[i] > cfg.update_freq)

\* two renders with a display interval of 1 ms, the first of them on a tick
\* that came one millisecond after its deadline
C11_TwoRenders ==
    /\ cfg.mode = "monitor"
    /\ cfg.update_freq = 1
    /\ renders = <<2, 4>>
    /\ next = 5

C13_ZeroDurationCompletes ==
    (cfg.mode = "log" /\ cfg.duration_ms = 0 /\ header # <<>>) =>
        /\ Len(header) = Cardinality(cfg.cpuset)
        /\ rows = <<>>
        /\ record = <<>>
        /\ pc \in {"logcheck", "done"}
        /\ pc = "logcheck" => clock >= endt

\* the zero-duration run of cores {2, 10} has returned with the header only
C13_ReturnedHeaderOnly ==
    /\ cfg.mode = "log"
    /\ cfg.duration_ms = 0
    /\ cfg.cpuset = {2, 10}
    /\ pc = "done"
    /\ header = <<sysfs_cpu_path(2), sysfs_cpu_path(10)>>
    /\ rows = <<>>

(***************************************************************************)
(* Properties of the aggregate parser's values (SpecProcfs)                *)
(***************************************************************************)
\* C14: every value of a returned mapping is D*1000 + ddd for a value line
\* "cpu MHz : D.ddd" of the file (the line's thousandths, unchanged).
C14_ThousandthsExact ==
    presult.kind = "ok" =>
        \A id \in DOMAIN presult.freqs :
            \E i \in 1..Len(pfile.lines) :
                /\ pfile.lines[i].k = "mhz"
                /\ presult.freqs[id] = pfile.lines[i].v

\* C16: the value recorded for a tracked core comes from a value line of
\* that core's own block: a marker line of the core precedes the value line
\* and no other marker line lies between the two.
C16_ValueOfLatestMarker ==
    presult.kind = "ok" =>
        \A id \in DOMAIN presult.freqs :
            \E i, j \in 1..Len(pfile.lines) :
                /\ i < j
                /\ pfile.lines[i] = Line("processor", id)
                /\ pfile.lines[j].k = "mhz"
                /\ presult.freqs[id] = mhz_to_sample(pfile.lines[j].v)
                /\ \A k \in (i + 1)..(j - 1) :
                       pfile.lines[k].k # "processor"

(***************************************************************************)
(* Properties of the Runner's ticks (Spec)                                 *)
(***************************************************************************)
\* C15: whenever the monitor renders, every core whose line it prints has
\* received at least one sample (no mean of an empty window is computed).
C15_RenderedCoresSampled ==
    [][renders' # renders =>
          \A id \in DOMAIN cpu_stats :
              Len(cpu_stats[id].frequency_samples) >= 1]_vars

\* C17: on every completed monitor tick each tracked core's CpuStat has
\* taken at most one add_sample call: exactly one under sysfs, and under
\* procfs exactly one if the core is in that poll's mapping and none if it
\* is absent from it.
C17_OneSamplePerPolledCore ==
    (cfg.mode = "monitor" /\ pc \in {"display", "sleep"}) =>
        \A id \in cfg.cpuset :
            feeds[id] = IF cfg.interface = "sysfs" \/ id \in DOMAIN polled
                        THEN 1 ELSE 0

\* C17 as stated: on every completed monitor tick each tracked core has
\* taken exactly one add_sample call, under both interfaces.
C17_ExactlyOneSample ==
    (cfg.mode = "monitor" /\ pc \in {"display", "sleep"}) =>
        \A id \in cfg.cpuset : feeds[id] = 1

\* a procfs tick whose poll held core 2 and not core 10
C17_OnePolledOneAbsent ==
    /\ cfg.mode = "monitor"
    /\ cfg.interface = "procfs"
    /\ cfg.cpuset = {2, 10}
    /\ pc = "sleep"
    /\ DOMAIN polled = {2}
    /\ feeds[2] = 1
    /\ feeds[10] = 0

\* C18: in log mode the header names the tracked cores in ascending numeric
\* order and, in the row a tick has just written, the field under a core's
\* column is the sample read for that core on that tick.
C18_ColumnsMatchHeader ==
    (cfg.mode = "log" /\ pc = "sleep") =>
        LET row == rows[Len(rows)]
            sampleOf == IF cfg.interface = "sysfs" THEN tickFreq ELSE polled
        IN  /\ Len(header) = Cardinality(cfg.cpuset)
            /\ Len(row) = Len(header)
            /\ \A id \in cfg.cpuset :
                  LET i == Cardinality({c \in cfg.cpuset : c < id}) + 1
                  IN  /\ header[i] = <<"c", "p", "u">> \o Decimal(id)
                      /\ id \in DOMAIN sampleOf
                      /\ row[i] = sampleOf[id]

\* C19: in log mode every record handed to the CSV writer has exactly one
\* field per header column, so the writer never fails on a row of a
\* different length, and every row written has the header's length.
C19_RowsHaveHeaderLength ==
    cfg.mode = "log" =>
        /\ pc = "logwrite" => Len(record) = Len(header)
        /\ \A i \in 1..Len(rows) : Len(rows[i]) = Len(header)

\* C20: within a monitor tick the steps run in the order probe, average
\* update, conditional render, sleep: a render happens at the display check,
\* after every sample the tick's poll returned has been added, and is the
\* only render of its tick; samples are added only before the display check
\* of their tick; a tick's first read follows the construction or a finished
\* sleep; and the clock the loop sees moves on only in the sleep.
C20_TickStepsInOrder ==
    [][cfg.mode = "monitor" =>
          /\ renders' # renders =>
                /\ pc = "display" /\ pc' = "sleep"
                /\ cpu_stats' = cpu_stats
                /\ \A id \in cfg.cpuset :
                      (cfg.interface = "sysfs" \/ id \in DOMAIN polled)
                          => /\ feeds[id] = 1
                             /\ id \in DOMAIN lastFed
                /\ Len(renders') = Len(renders) + 1
                /\ renders # <<>> => renders[Len(renders)] < clock
          /\ (cpu_stats' # cpu_stats /\ pc # "start") =>
                /\ pc \in {"poll", "feed"}
                /\ renders' = renders
          /\ (pc # "poll" /\ pc' = "poll") => pc \in {"start", "sleep"}
          /\ pc' = "sleep" => pc = "display"
          /\ clock' # clock => pc = "sleep" /\ pc' = "poll"]_vars

\* the second tick of a two-core monitor has polled, added one sample per
\* core and rendered, and is about to sleep
C20_RenderedAfterUpdate ==
    /\ cfg.mode = "monitor"
    /\ cfg.cpuset = {2, 10}
    /\ pc = "sleep"
    /\ ticks = 1
    /\ renders = <<clock>>
    /\ feeds = [id \in {2, 10} |-> 1]
    /\ DOMAIN screen = {2, 10}

====
